---- MODULE Spec2Model ----
(***************************************************************************)
(* hasjob: the Filterset model (src/hasjob/models/filterset.py).           *)
(*                                                                         *)
(* The state is the filterset table with its four association tables, one  *)
(* record per row (a row's id is its position in `rows`), and the outcome  *)
(* of the operation in progress.  The operations are the saves of a        *)
(* Filterset (an insert or an update, each passing through the             *)
(* before_insert / before_update hook _format_and_validate) and the lookup *)
(* Filterset.from_filters.  The SQL that from_filters composes is modelled *)
(* by what the database evaluates: the joins, the WHERE clauses, the       *)
(* GROUP BY filterset.id, the HAVING count(...) clauses and one_or_none(). *)
(***************************************************************************)
EXTENDS Integers, Sequences, FiniteSets, TLC

VARIABLES rows, last, sessions

vars == <<rows, last, sessions>>

(***************************************************************************)
(* Bounds of the model.                                                    *)
(***************************************************************************)
MaxRows == 2

MaxGeonameids == 2

(***************************************************************************)
(* The values the callers draw from.                                       *)
(***************************************************************************)
Boards == {"www", "blr"}

JobTypeNames == {"fulltime", "contract"}

JobCategoryNames == {"programming"}

TagNames == {"python"}

DomainNames == {"example.com"}

GeonameIds == {1, 2}

PayAmounts == {0, 5}

Currencies == {"INR"}

Keywords == {"editor"}

Connections == {1, 2}

(***************************************************************************)
(* Python's None, and a nullable column's values: None is the empty tuple, *)
(* a value v is <<v>>.                                                     *)
(***************************************************************************)
None == <<>>

Some(v) == <<v>>

GeonameidLists == UNION {[1..n -> GeonameIds] : n \in 0..MaxGeonameids}

(***************************************************************************)
(* The columns and relationships of a Filterset that carry criteria.  The  *)
(* relationships hold entities with distinct names and are kept as the set *)
(* of those names.                                                         *)
(***************************************************************************)
Filterset ==
    [board : Boards,
     types : SUBSET JobTypeNames,
     categories : SUBSET JobCategoryNames,
     tags : SUBSET TagNames,
     domains : SUBSET DomainNames,
     geonameids : GeonameidLists,
     remote_location : BOOLEAN,
     pay_currency : {None} \cup {Some(c) : c \in Currencies},
     pay_cash : {None} \cup {Some(p) : p \in PayAmounts},
     equity : BOOLEAN,
     keywords : {""} \cup Keywords]

(* The column defaults: a Filterset with no criteria. *)
NoCriteria(board) ==
    [board |-> board, types |-> {}, categories |-> {}, tags |-> {},
     domains |-> {}, geonameids |-> <<>>, remote_location |-> FALSE,
     pay_currency |-> None, pay_cash |-> None, equity |-> FALSE,
     keywords |-> ""]

(* sorted(): ascending, duplicates kept. *)
RECURSIVE insort(_, _)
insort(x, s) ==
    IF s = <<>> THEN <<x>>
    ELSE IF x <= Head(s) THEN <<x>> \o s
    ELSE <<Head(s)>> \o insort(x, Tail(s))

RECURSIVE sorted(_)
sorted(s) == IF s = <<>> THEN <<>> ELSE insort(Head(s), sorted(Tail(s)))

(***************************************************************************)
(* Filterset.to_filters(translate_geonameids=False).                       *)
(***************************************************************************)
to_filters(fs) ==
    [t |-> fs.types,
     c |-> fs.categories,
     k |-> fs.tags,
     d |-> fs.domains,
     l |-> fs.geonameids,
     currency |-> fs.pay_currency,
     pay |-> fs.pay_cash,
     equity |-> fs.equity,
     anywhere |-> fs.remote_location,
     q |-> fs.keywords]

(***************************************************************************)
(* `if filters.get(key):` a missing key gives None, and None, an empty     *)
(* list, 0, False and '' are all false.                                    *)
(***************************************************************************)
truthy(filters, key) ==
    /\ key \in DOMAIN filters
    /\ CASE key \in {"t", "c", "k", "d"} -> filters[key] # {}
         [] key = "l" -> filters[key] # <<>>
         [] key = "pay" -> filters[key] # None /\ filters[key][1] # 0
         [] key = "currency" -> filters[key] # None /\ filters[key][1] # ""
         [] key \in {"equity", "anywhere"} -> filters[key]
         [] key = "q" -> filters[key] # ""

(* The names a row is associated with through one association table. *)
associated(fs, key) ==
    CASE key = "t" -> fs.types
      [] key = "c" -> fs.categories
      [] key = "k" -> fs.tags
      [] key = "d" -> fs.domains

(***************************************************************************)
(* .join(association table).join(entity).filter(entity.name.in_(names)):   *)
(* the joined rows of one filterset that one criterion contributes, one    *)
(* per associated entity whose name is in the list.  A criterion that is   *)
(* not supplied adds no join.                                              *)
(***************************************************************************)
joined(fs, filters, key) ==
    IF truthy(filters, key)
    THEN Cardinality(associated(fs, key) \cap filters[key])
    ELSE 1

(***************************************************************************)
(* The joins of all supplied criteria are made in one SELECT, so the group *)
(* of a filterset (GROUP BY filterset.id) holds the product of them, and   *)
(* every count(<association>.filterset_id) counts the whole group.         *)
(***************************************************************************)
group_count(fs, filters) ==
    joined(fs, filters, "t") * joined(fs, filters, "c")
        * joined(fs, filters, "k") * joined(fs, filters, "d")

(***************************************************************************)
(* One many-to-many criterion of from_filters: HAVING count == len(names)  *)
(* when supplied, NOT EXISTS (association row) otherwise.                  *)
(***************************************************************************)
assoc_clause(fs, filters, key) ==
    IF truthy(filters, key)
    THEN /\ group_count(fs, filters) >= 1
         /\ group_count(fs, filters) = Cardinality(filters[key])
    ELSE associated(fs, key) = {}

location_clause(fs, filters) ==
    IF truthy(filters, "l")
    THEN fs.geonameids = sorted(filters.l)
    ELSE fs.geonameids = <<>>

equity_clause(fs, filters) ==
    IF truthy(filters, "equity") THEN fs.equity = TRUE ELSE fs.equity = FALSE

(* pay_clause with the absent case left unconstrained: a variant that shows
   C5 to depend on the null checks of pay_clause. *)
pay_clause_unconstrained(fs, filters) ==
    truthy(filters, "pay") /\ truthy(filters, "currency")
        => fs.pay_cash = filters.pay /\ fs.pay_currency = filters.currency

pay_clause(fs, filters) ==
    IF truthy(filters, "pay") /\ truthy(filters, "currency")
    THEN fs.pay_cash = filters.pay /\ fs.pay_currency = filters.currency
    ELSE fs.pay_cash = None /\ fs.pay_currency = None

keywords_clause(fs, filters) ==
    IF truthy(filters, "q") THEN fs.keywords = filters.q ELSE fs.keywords = ""

anywhere_clause(fs, filters) ==
    IF truthy(filters, "anywhere")
    THEN fs.remote_location = TRUE
    ELSE fs.remote_location = FALSE

(* The ids of the rows of `table` that the composed query selects. *)
basequery(table, board, filters) ==
    {id \in 1..Len(table) :
        /\ table[id].board = board
        /\ assoc_clause(table[id], filters, "t")
        /\ assoc_clause(table[id], filters, "c")
        /\ assoc_clause(table[id], filters, "k")
        /\ assoc_clause(table[id], filters, "d")
        /\ location_clause(table[id], filters)
        /\ equity_clause(table[id], filters)
        /\ pay_clause(table[id], filters)
        /\ keywords_clause(table[id], filters)
        /\ anywhere_clause(table[id], filters)}

(* Query.first() in the place of one_or_none(): a variant that shows C8 to
   depend on one_or_none. *)
first(ids) ==
    IF ids = {} THEN [raised |-> "", id |-> 0]
    ELSE [raised |-> "", id |-> CHOOSE id \in ids : \A other \in ids : id <= other]

(***************************************************************************)
(* Query.one_or_none(): None (id 0) for no row, the row for one, and       *)
(* MultipleResultsFound raised for more.                                   *)
(***************************************************************************)
one_or_none(ids) ==
    IF ids = {} THEN [raised |-> "", id |-> 0]
    ELSE IF Cardinality(ids) = 1
         THEN [raised |-> "", id |-> CHOOSE id \in ids : TRUE]
         ELSE [raised |-> "MultipleResultsFound", id |-> 0]

(* Filterset.from_filters(board, filters) against the rows of `table`. *)
from_filters(table, board, filters) ==
    one_or_none(basequery(table, board, filters))

(* The hook without its sort: a variant that shows C4 to depend on the
   sort. *)
format_unsorted(target) == target

(***************************************************************************)
(* The first statement of the hook: a non-empty geonameids is replaced by  *)
(* its sorted copy.                                                        *)
(***************************************************************************)
format(target) ==
    IF target.geonameids # <<>>
    THEN [target EXCEPT !.geonameids = sorted(target.geonameids)]
    ELSE target

(***************************************************************************)
(* _format_and_validate(mapper, connection, target), for a target whose id *)
(* is `id` (0, None, for a Filterset not yet inserted), reading `table`:   *)
(* the exception it ends with ("" for none) and the target as it leaves    *)
(* the hook.  An exception of from_filters passes through it.              *)
(***************************************************************************)
_format_and_validate(table, target, id) ==
    LET formatted == format(target)
        filterset == from_filters(table, formatted.board, to_filters(formatted))
    IN  [target |-> formatted,
         raised |->
            IF filterset.raised # "" THEN filterset.raised
            ELSE IF filterset.id # 0 /\ filterset.id # id THEN "ValueError"
            ELSE ""]

(***************************************************************************)
(* The Filtersets the callers save.  A saved Filterset sets one criterion  *)
(* (pay amount and currency are set together or alone), or two of the      *)
(* many-to-many criteria.                                                  *)
(***************************************************************************)
criteria_set(fs) ==
    {key \in {"t", "c", "k", "d", "l", "pay", "equity", "anywhere", "q"} :
        CASE key = "pay" -> fs.pay_cash # None \/ fs.pay_currency # None
          [] key = "l" -> fs.geonameids # <<>>
          [] key = "equity" -> fs.equity
          [] key = "anywhere" -> fs.remote_location
          [] key = "q" -> fs.keywords # ""
          [] OTHER -> associated(fs, key) # {}}

Targets ==
    {target : target \in
        {fs \in Filterset :
            \/ Cardinality(criteria_set(fs)) <= 1
            \/ criteria_set(fs) \in {{"t", "c"}, {"k", "d"}}}}

(* `target` with the criteria of `fs`, its board kept. *)
edited(target, fs) == [fs EXCEPT !.board = target.board]

(***************************************************************************)
(* The filters dictionaries the callers look up: the dictionary of every   *)
(* Filterset above, whole and with the keys of its unset criteria omitted. *)
(***************************************************************************)
supplied(filters) ==
    [key \in {k \in DOMAIN filters :
                 \/ truthy(filters, k)
                 \/ k = "pay" /\ filters[k] # None
                 \/ k = "currency" /\ filters[k] # None} |-> filters[key]]

Lookups ==
    {filters : filters \in
        {to_filters(fs) : fs \in Targets} \cup
        {supplied(to_filters(fs)) : fs \in Targets} \cup
        {[l |-> <<2, 1>>]}}

(***************************************************************************)
(* The operations.  `last` is the operation in progress: idle, or the      *)
(* outcome of a save or a lookup that has run and not yet returned.        *)
(***************************************************************************)
Idle == [op |-> "idle"]

Init ==
    /\ rows = <<>>
    /\ last = Idle
    /\ sessions = [c \in Connections |-> [pc |-> "idle"]]

(***************************************************************************)
(* db.session.add(target); db.session.commit() for a new Filterset: the    *)
(* before_insert hook runs before the INSERT, against the rows already     *)
(* stored; if it raises, nothing is written.                               *)
(***************************************************************************)
InsertFrom(universe) ==
    /\ last.op = "idle"
    /\ Len(rows) < MaxRows
    /\ \E target \in universe :
        LET hook == _format_and_validate(rows, target, 0)
        IN  /\ rows' = IF hook.raised = "" THEN Append(rows, hook.target)
                       ELSE rows
            /\ last' = [op |-> "insert", id |-> 0, target |-> target,
                        raised |-> hook.raised]
    /\ UNCHANGED sessions

(***************************************************************************)
(* An edit of the stored Filterset `id` followed by a commit: the          *)
(* before_update hook runs before the UPDATE and the association-table     *)
(* writes, so its query reads the row as stored before the edit.           *)
(***************************************************************************)
UpdateFrom(universe) ==
    /\ last.op = "idle"
    /\ \E id \in 1..Len(rows) :
       \E fs \in {u \in universe : u.board = rows[id].board} :
        LET target == edited(rows[id], fs)
            hook == _format_and_validate(rows, target, id)
        IN  /\ rows' = IF hook.raised = ""
                       THEN [rows EXCEPT ![id] = hook.target]
                       ELSE rows
            /\ last' = [op |-> "update", id |-> id, target |-> target,
                        raised |-> hook.raised]
    /\ UNCHANGED sessions

(* A call of Filterset.from_filters(board, filters). *)
LookupFrom(universe) ==
    /\ last.op = "idle"
    /\ \E board \in Boards, filters \in universe :
        last' = [op |-> "lookup", board |-> board, filters |-> filters,
                 result |-> from_filters(rows, board, filters)]
    /\ UNCHANGED <<rows, sessions>>

(* The operation returns (or its exception reaches the caller). *)
Return ==
    /\ last.op # "idle"
    /\ last' = Idle
    /\ UNCHANGED <<rows, sessions>>

Insert == InsertFrom(Targets)

Update == UpdateFrom(Targets)

Lookup == LookupFrom(Lookups)

Next == Insert \/ Update \/ Lookup \/ Return

Spec == Init /\ [][Next]_vars

(***************************************************************************)
(* Saves that set the location criterion alone, every order of the ids.    *)
(***************************************************************************)
LocationTargets ==
    {target : target \in
        {fs \in Targets : criteria_set(fs) \subseteq {"l"}}}

InsertLocation == InsertFrom(LocationTargets)

UpdateLocation == UpdateFrom(LocationTargets)

NextLocation == InsertLocation \/ UpdateLocation \/ Return

SpecLocation == Init /\ [][NextLocation]_vars

(***************************************************************************)
(* Filtersets with at most one column or relationship set, one value for   *)
(* each, and the lookup with every key omitted.                            *)
(***************************************************************************)
columns_set(fs) ==
    {key \in DOMAIN fs \ {"board"} : fs[key] # NoCriteria(fs.board)[key]}

SingleTargets ==
    {target : target \in
        {fs \in Targets :
            /\ Cardinality(columns_set(fs)) <= 1
            /\ fs.types \subseteq {"fulltime"}
            /\ fs.geonameids \in {<<>>, <<1>>}
            /\ fs.pay_cash \in {None, Some(5)}}}

EmptyFilters == supplied(to_filters(NoCriteria("www")))

InsertSingle == InsertFrom(SingleTargets)

UpdateSingle == UpdateFrom(SingleTargets)

LookupEmpty == LookupFrom({EmptyFilters})

NextEmpty == InsertSingle \/ UpdateSingle \/ LookupEmpty \/ Return

SpecEmpty == Init /\ [][NextEmpty]_vars

(***************************************************************************)
(* Filtersets that set job types and categories only, and the lookups of   *)
(* their dictionaries.                                                     *)
(***************************************************************************)
AssocTargets ==
    {target : target \in
        {fs \in Targets : criteria_set(fs) \subseteq {"t", "c"}}}

AssocLookups ==
    {filters : filters \in
        {to_filters(fs) : fs \in AssocTargets} \cup
        {supplied(to_filters(fs)) : fs \in AssocTargets}}

InsertAssoc == InsertFrom(AssocTargets)

UpdateAssoc == UpdateFrom(AssocTargets)

LookupAssoc == LookupFrom(AssocLookups)

NextAssoc == InsertAssoc \/ UpdateAssoc \/ LookupAssoc \/ Return

SpecAssoc == Init /\ [][NextAssoc]_vars

(***************************************************************************)
(* Concurrent saves.  Each connection runs one transaction at a time: the  *)
(* flush runs the hook, whose query reads the committed rows, and the      *)
(* commit makes the written row visible.  No constraint of the table       *)
(* covers the criteria, so the database accepts every commit.  The saved   *)
(* Filtersets set the keywords, the equity flag or the remote flag, for    *)
(* which a lookup of a row's own dictionary finds the row.                 *)
(***************************************************************************)
ConcurrentTargets ==
    {target : target \in
        {fs \in Targets :
            criteria_set(fs) \in {{}, {"q"}, {"equity"}, {"anywhere"}}}}

pending_inserts ==
    Cardinality({c \in Connections :
        sessions[c].pc = "flushed" /\ sessions[c].id = 0})

(* The flush of a new Filterset on connection c. *)
FlushInsert(c) ==
    /\ sessions[c].pc = "idle"
    /\ Len(rows) + pending_inserts < MaxRows
    /\ \E target \in ConcurrentTargets :
        LET hook == _format_and_validate(rows, target, 0)
        IN  sessions' = IF hook.raised = ""
                        THEN [sessions EXCEPT ![c] =
                                [pc |-> "flushed", id |-> 0,
                                 target |-> hook.target]]
                        ELSE sessions
    /\ UNCHANGED <<rows, last>>

(* The flush of an edited Filterset on connection c. *)
FlushUpdate(c) ==
    /\ sessions[c].pc = "idle"
    /\ \E id \in 1..Len(rows) :
       \E fs \in {u \in ConcurrentTargets : u.board = rows[id].board} :
        LET hook == _format_and_validate(rows, edited(rows[id], fs), id)
        IN  sessions' = IF hook.raised = ""
                        THEN [sessions EXCEPT ![c] =
                                [pc |-> "flushed", id |-> id,
                                 target |-> hook.target]]
                        ELSE sessions
    /\ UNCHANGED <<rows, last>>

(* The commit of connection c's transaction. *)
Commit(c) ==
    /\ sessions[c].pc = "flushed"
    /\ rows' = IF sessions[c].id = 0
               THEN Append(rows, sessions[c].target)
               ELSE [rows EXCEPT ![sessions[c].id] = sessions[c].target]
    /\ sessions' = [sessions EXCEPT ![c] = [pc |-> "idle"]]
    /\ UNCHANGED last

NextConcurrent ==
    \E c \in Connections : FlushInsert(c) \/ FlushUpdate(c) \/ Commit(c)

SpecConcurrent == Init /\ [][NextConcurrent]_vars

(***************************************************************************)
(* What the claims speak of.                                               *)
(***************************************************************************)
Saved == last.op \in {"insert", "update"}

Succeeded == Saved /\ last.raised = ""

(* The id of the row the last save wrote, or of its target if it failed. *)
saved_id == IF last.op = "insert" /\ last.raised = "" THEN Len(rows) ELSE last.id

(* Another row of the board of `fs` has the to_filters() dictionary of fs. *)
collides(table, fs, id) ==
    \E other \in 1..Len(table) :
        /\ other # id
        /\ table[other].board = fs.board
        /\ to_filters(table[other]) = to_filters(fs)

ascending(s) == \A i \in 1..Len(s) - 1 : s[i] <= s[i + 1]

occurrences(s, x) == Cardinality({i \in 1..Len(s) : s[i] = x})

same_ids(s, u) ==
    /\ Len(s) = Len(u)
    /\ \A x \in GeonameIds : occurrences(s, x) = occurrences(u, x)

(* The rows the composed query of the last lookup selects. *)
selected == basequery(rows, last.board, last.filters)

(***************************************************************************)
(* C1.  In every state reached by successful saves made one after the      *)
(* other, no two distinct rows of one board have equal to_filters()        *)
(* dictionaries.                                                           *)
(***************************************************************************)
C1_UniquePerBoard ==
    \A id \in 1..Len(rows) : ~collides(rows, rows[id], id)

(***************************************************************************)
(* C2.  Round trip: from_filters(fs.board, fs.to_filters()) returns fs     *)
(* itself for every stored Filterset fs.                                   *)
(***************************************************************************)
C2_RoundTrip ==
    last.op = "lookup" =>
        \A id \in 1..Len(rows) :
            rows[id].board = last.board /\ last.filters = to_filters(rows[id])
                => last.result = [raised |-> "", id |-> id]

(***************************************************************************)
(* C3.  A save of a Filterset whose to_filters() dictionary equals that of *)
(* a different row of its board is rejected with ValueError: whenever the  *)
(* saved Filterset collides, the save has raised ValueError (so a save     *)
(* that went through left no collision behind).                            *)
(***************************************************************************)
C3_CollisionRejected ==
    Saved /\ collides(rows, format(last.target), saved_id)
        => last.raised = "ValueError"

(***************************************************************************)
(* C4.  After every successful insert or update the stored geonameids of   *)
(* the saved row is the list the caller assigned, in ascending order (an   *)
(* empty list stays empty), and so every stored list is ascending.         *)
(***************************************************************************)
C4_GeonameidsSorted ==
    /\ \A id \in 1..Len(rows) : ascending(rows[id].geonameids)
    /\ Succeeded =>
        /\ ascending(rows[saved_id].geonameids)
        /\ same_ids(rows[saved_id].geonameids, last.target.geonameids)

C4_Witness ==
    /\ Succeeded
    /\ last.target.geonameids = <<2, 1>>
    /\ rows[saved_id].geonameids = <<1, 2>>

(***************************************************************************)
(* C5.  from_filters(board, {}) returns a row only if the row belongs to   *)
(* board and has no types, categories, tags or domains, an empty           *)
(* geonameids, null pay_cash and pay_currency, equity and remote_location  *)
(* False and keywords ''.                                                  *)
(***************************************************************************)
C5_EmptyFiltersMatchNoCriteria ==
    last.op = "lookup" /\ DOMAIN last.filters = {} /\ last.result.id # 0
        => rows[last.result.id] = NoCriteria(last.board)

C5_Witness ==
    /\ last.op = "lookup"
    /\ DOMAIN last.filters = {}
    /\ last.result.id # 0
    /\ \E other \in 1..Len(rows) :
        /\ rows[other].board = last.board
        /\ columns_set(rows[other]) # {}

(***************************************************************************)
(* C6.  A row that from_filters selects has, for each of 't', 'c', 'k' and *)
(* 'd', exactly the supplied names associated when a non-empty list is     *)
(* supplied, and no association of that kind when nothing or an empty list *)
(* is supplied.                                                            *)
(***************************************************************************)
C6_ExactAssociations ==
    last.op = "lookup" =>
        \A id \in selected : \A key \in {"t", "c", "k", "d"} :
            associated(rows[id], key) =
                IF truthy(last.filters, key) THEN last.filters[key] ELSE {}

(***************************************************************************)
(* C7.  A row that from_filters selects has, for each scalar criterion     *)
(* ('pay', 'currency', 'equity', 'anywhere', 'q'), the supplied value when *)
(* the caller supplied one and the unset value (null, null, False, False,  *)
(* '') when the caller did not.                                            *)
(***************************************************************************)
C7_ExactScalars ==
    last.op = "lookup" =>
        \A id \in selected :
            LET expected(key) ==
                    IF key \in DOMAIN last.filters
                    THEN last.filters[key]
                    ELSE to_filters(NoCriteria(last.board))[key]
            IN  \A key \in {"pay", "currency", "equity", "anywhere", "q"} :
                    to_filters(rows[id])[key] = expected(key)

(***************************************************************************)
(* C8.  from_filters returns None when no row of the board satisfies the   *)
(* composed predicate, the row when exactly one does, and raises when more *)
(* than one does.                                                          *)
(***************************************************************************)
C8_AtMostOneRow ==
    last.op = "lookup" =>
        /\ selected = {} => last.result = [raised |-> "", id |-> 0]
        /\ Cardinality(selected) = 1 =>
            last.result.raised = "" /\ last.result.id \in selected
        /\ Cardinality(selected) > 1 =>
            last.result = [raised |-> "MultipleResultsFound", id |-> 0]

C8_Witness ==
    /\ last.op = "lookup"
    /\ Cardinality(selected) > 1
    /\ last.result.raised = "MultipleResultsFound"

(***************************************************************************)
(* C9.  The hook raises no error for a save that collides with no other    *)
(* row of its board.                                                       *)
(***************************************************************************)
C9_NoFalseRejection ==
    Saved /\ ~collides(rows, format(last.target), saved_id)
        => last.raised = ""

(***************************************************************************)
(* C10.  Under every interleaving of concurrent saves, no two rows of one  *)
(* board have equal to_filters() dictionaries: two transactions that save  *)
(* the same criteria under one board cannot both commit.                   *)
(***************************************************************************)
C10_UniqueUnderConcurrency ==
    \A id \in 1..Len(rows) : \A other \in 1..Len(rows) :
        id # other /\ rows[id].board = rows[other].board
            => to_filters(rows[id]) # to_filters(rows[other])

====
